---- MODULE Spec2Model ----
(***************************************************************************)
(* Model of the chimeric resource caches: the composite texture key        *)
(* (render_system_txt_key.rs), the two-level font cache (font_system.rs,   *)
(* font.rs), the per-window texture cache (render_system.rs) and the       *)
(* window map of ChimericSystem (system.rs).                               *)
(*                                                                         *)
(* An LruCache is a record [cap, list]: list holds [key, val] entries,     *)
(* most recently used first, so list[Len(list)] is the eviction candidate. *)
(***************************************************************************)
EXTENDS Integers, Sequences, FiniteSets, TLC

VARIABLES
    settings,          \* ChimericSystemSettings (system.rs:59-63)
    font_system,       \* ChimericSystem.font_system: [num_font_objects_per_font,
                       \* num_font_objects: LruCache<PathBuf, LruCache<u16, Font>>]
    windows,           \* ChimericSystem.windows: window name -> RenderSystem
    last,              \* observation of the most recent call (what it did, what it returned)
    log,               \* the calls made since construction, oldest first, while they all
                       \* succeeded and are at most MaxLog; otherwise marked incomplete
    key_inputs,        \* the two requests given to the key constructors
    key_built,         \* what the constructors built for them
    sounds             \* an AudioSystem (audio_system.rs:15-17): [chunks: LruCache]

vars == <<settings, font_system, windows, last, log, key_inputs, key_built, sounds>>

keyvars == <<key_inputs, key_built>>

-----------------------------------------------------------------------------
(* Bounds of the model.                                                    *)

\* largest capacity tried for each of the three cache settings
MaxCap == 2
\* number of calls the log records after construction
MaxLog == 4
\* longest text and longest path given to the key constructors
MaxTextLen == 2
MaxPathLen == 1

\* font files and point sizes given to the font system on its own
FontFiles == { <<70>>, <<71>> }
PointSizes == { 10, 12, 14 }

-----------------------------------------------------------------------------
(* lru::LruCache, as used by the three systems.                            *)

LruNew(cap) == [cap |-> cap, list |-> <<>>]

LruLen(c) == Len(c.list)

LruKeys(c) == { c.list[i].key : i \in 1..Len(c.list) }

LruContains(c, k) == \E i \in 1..Len(c.list) : c.list[i].key = k

LruIndex(c, k) == CHOOSE i \in 1..Len(c.list) : c.list[i].key = k

LruPeek(c, k) == c.list[LruIndex(c, k)].val

RemoveAt(s, i) == SubSeq(s, 1, i - 1) \o SubSeq(s, i + 1, Len(s))

\* a hit: detach the node and attach it at the front
LruPromote(c, k) ==
    LET i == LruIndex(c, k)
    IN  [c EXCEPT !.list = <<c.list[i]>> \o RemoveAt(c.list, i)]

\* replace_or_create_node + attach: a full cache gives up its last entry
LruInsert(c, k, v) ==
    LET kept == IF Len(c.list) = c.cap
                THEN SubSeq(c.list, 1, Len(c.list) - 1)
                ELSE c.list
    IN  [c EXCEPT !.list = <<[key |-> k, val |-> v]>> \o kept]

\* the keys a miss-insert of a new key drops
LruEvictedByInsert(c) ==
    IF Len(c.list) = c.cap THEN { c.list[Len(c.list)].key } ELSE {}

\* get_or_insert_mut_ref: the compute function cannot fail
LruGetOrInsert(c, k, v) ==
    IF LruContains(c, k) THEN LruPromote(c, k) ELSE LruInsert(c, k, v)

\* try_get_or_insert(_mut): res is the compute function's result,
\* [ok |-> TRUE, val |-> v] or [ok |-> FALSE]; it is used on a miss only
LruTryGetOrInsert(c, k, res) ==
    IF LruContains(c, k) THEN LruPromote(c, k)
    ELSE IF res.ok THEN LruInsert(c, k, res.val)
    ELSE c

\* peek_mru: the front entry, recency untouched
LruPeekMruSome(c) == Len(c.list) > 0

LruPeekMru(c) == c.list[1]

-----------------------------------------------------------------------------
(* Font (font.rs) and FontSystem (font_system.rs).                         *)

\* buffers of font file bytes that some cached Font holds
LiveBuffers(outer) ==
    UNION { { outer.list[i].val.list[j].val.font_file_content :
                j \in 1..Len(outer.list[i].val.list) } : i \in 1..Len(outer.list) }

\* Rc::new: an allocation that no live Font refers to
RcNew(outer) ==
    CHOOSE n \in 1..(Cardinality(LiveBuffers(outer)) + 1) :
        /\ n \notin LiveBuffers(outer)
        /\ \A m \in 1..(n - 1) : m \in LiveBuffers(outer)

\* Font::new: fails when SDL_RWFromConstMem or TTF_OpenFontRW returns null
FontNew(point_size, font_file_content, openOk) ==
    IF openOk
    THEN [ok |-> TRUE,
          val |-> [font_file_content |-> font_file_content, point_size |-> point_size]]
    ELSE [ok |-> FALSE]

\* What Font::new acquires: the read stream of SDL_RWFromConstMem, then the
\* font of TTF_OpenFontRW (called with freesrc = 0, so a failed open leaves
\* the stream open); either returning null ends the call with Err.
FontNewAcquires(rwopsOk, openOk) ==
    [rwops |-> IF rwopsOk THEN 1 ELSE 0,
     fonts |-> IF rwopsOk /\ openOk THEN 1 ELSE 0]

\* Drop for Font: closes the read stream, then the font (TTF_WasInit() is 1
\* for as long as the Sdl2TtfContext borrowed for 'ttf lives)
FontDrop == [rwops |-> 1, fonts |-> 1]

\* The strong count of a font file's Rc<Box<[u8]>> and the number of live
\* Font objects made from it, as a call changes them step by step.
RcStep(strong, fonts) == [strong |-> strong, fonts |-> fonts]

\* Font::new keeping no clone of the Rc in the Font
FontNewRcNoClone(openOk) ==
    IF openOk THEN << RcStep(0, 1), RcStep(-1, 0) >>
    ELSE << RcStep(-1, 0) >>

\* Font::new: clones the Rc; on Ok the Font holds the clone and the
\* argument is dropped, on Err both are dropped
FontNewRc(openOk) ==
    IF openOk THEN << RcStep(1, 0), RcStep(0, 1), RcStep(-1, 0) >>
    ELSE << RcStep(1, 0), RcStep(-1, 0), RcStep(-1, 0) >>

\* drop of a Font: Drop::drop closes the font, then the field
\* font_file_content is dropped
FontDropRc == << RcStep(0, -1), RcStep(-1, 0) >>

RECURSIVE RcApply(_, _)
RcApply(at, steps) ==
    IF steps = <<>> THEN <<>>
    ELSE LET next == RcStep(at.strong + Head(steps).strong, at.fonts + Head(steps).fonts)
         IN  <<next>> \o RcApply(next, Tail(steps))

\* FontSystem::render, for the buffer the call uses: Rc::new or the clone
\* of a cached Font's Rc; on a hit the closure that holds it is dropped
\* unused, on a miss Font::new runs and then, the Font being inserted, a
\* full inner cache drops its least recently used Font
FontSystemRenderRc(fs, font_file, point_size, readOk, openOk) ==
    LET outer == fs.num_font_objects
        cached == IF LruContains(outer, font_file)
                  THEN LruPeek(outer, font_file)
                  ELSE LruNew(fs.num_font_objects_per_font)
        n == LruLen(cached)
        steps == << RcStep(1, 0) >>
                 \o (IF LruContains(cached, point_size) THEN << RcStep(-1, 0) >>
                     ELSE FontNewRc(openOk)
                          \o (IF openOk /\ n = cached.cap THEN FontDropRc ELSE <<>>))
    IN  IF n = 0 /\ ~readOk THEN <<>>
        ELSE RcApply(RcStep(n, n), steps)

\* the Font objects a font system holds
RECURSIVE SumLen(_)
SumLen(list) ==
    IF list = <<>> THEN 0 ELSE LruLen(Head(list).val) + SumLen(Tail(list))

NumFonts(fs) == SumLen(fs.num_font_objects.list)

\* the Font objects dropped by a call that evicted these font files and
\* these point sizes
RECURSIVE SumEvicted(_, _)
SumEvicted(outer, files) ==
    IF files = {} THEN 0
    ELSE LET f == CHOOSE x \in files : TRUE
         IN  LruLen(LruPeek(outer, f)) + SumEvicted(outer, files \ {f})

FontsDropped(fs, r) ==
    SumEvicted(fs.num_font_objects, r.evicted_files) + Cardinality(r.evicted_sizes)

\* FontSystem::new with its two capacities taken for each other
FontSystemNewSwapped(num_font_objects_per_font, min_loaded_fonts) ==
    [num_font_objects_per_font |-> min_loaded_fonts,
     num_font_objects |-> LruNew(num_font_objects_per_font)]

\* FontSystem::new
FontSystemNew(num_font_objects_per_font, min_loaded_fonts) ==
    [num_font_objects_per_font |-> num_font_objects_per_font,
     num_font_objects |-> LruNew(min_loaded_fonts)]

\* FontSystem::render reading the file on every call instead of taking
\* the bytes from a cached Font
FontSystemRenderAlwaysRead(fs, font_file, point_size, readOk, openOk, rasterOk) ==
    LET outer == fs.num_font_objects
        outer1 == LruGetOrInsert(outer, font_file, LruNew(fs.num_font_objects_per_font))
        inner == outer1.list[1].val
        hit == LruContains(inner, point_size)
        rc == RcNew(outer1)
        inner1 == LruTryGetOrInsert(inner, point_size, FontNew(point_size, rc, openOk))
        outer2 == [outer1 EXCEPT !.list[1].val = inner1]
        base == [fs |-> [fs EXCEPT !.num_font_objects = outer1], ok |-> FALSE,
                 failed |-> "read", read |-> TRUE, opened |-> FALSE, rastered |-> FALSE,
                 buffer |-> 0,
                 evicted_files |-> IF LruContains(outer, font_file) THEN {}
                                   ELSE LruEvictedByInsert(outer),
                 evicted_sizes |-> {}]
    IN  IF ~readOk THEN base
        ELSE IF ~hit /\ ~openOk
        THEN [base EXCEPT !.failed = "open", !.opened = TRUE, !.buffer = rc]
        ELSE [base EXCEPT !.fs.num_font_objects = outer2, !.ok = rasterOk,
                !.failed = IF rasterOk THEN "none" ELSE "raster",
                !.opened = ~hit, !.rastered = TRUE, !.buffer = rc,
                !.evicted_sizes = IF hit THEN {} ELSE LruEvictedByInsert(inner)]

\* FontSystem::render giving a new inner cache the capacity of the outer one
FontSystemRenderOuterCap(fs, font_file, point_size, readOk, openOk, rasterOk) ==
    LET outer == fs.num_font_objects
        outer1 == LruGetOrInsert(outer, font_file, LruNew(outer.cap))
        inner == outer1.list[1].val
        reuse == LruPeekMruSome(inner)
        hit == LruContains(inner, point_size)
        rc == IF reuse THEN LruPeekMru(inner).val.font_file_content ELSE RcNew(outer1)
        inner1 == LruTryGetOrInsert(inner, point_size, FontNew(point_size, rc, openOk))
        outer2 == [outer1 EXCEPT !.list[1].val = inner1]
        base == [fs |-> [fs EXCEPT !.num_font_objects = outer1], ok |-> FALSE,
                 failed |-> "read", read |-> ~reuse, opened |-> FALSE, rastered |-> FALSE,
                 buffer |-> 0,
                 evicted_files |-> IF LruContains(outer, font_file) THEN {}
                                   ELSE LruEvictedByInsert(outer),
                 evicted_sizes |-> {}]
    IN  IF ~reuse /\ ~readOk THEN base
        ELSE IF ~hit /\ ~openOk
        THEN [base EXCEPT !.failed = "open", !.opened = TRUE, !.buffer = rc]
        ELSE [base EXCEPT !.fs.num_font_objects = outer2, !.ok = rasterOk,
                !.failed = IF rasterOk THEN "none" ELSE "raster",
                !.opened = ~hit, !.rastered = TRUE, !.buffer = rc,
                !.evicted_sizes = IF hit THEN {} ELSE LruEvictedByInsert(inner)]

\* FontSystem::render putting the font cache back as it was when
\* Font::render fails
FontSystemRenderRollback(fs, font_file, point_size, readOk, openOk, rasterOk) ==
    LET outer == fs.num_font_objects
        outer1 == LruGetOrInsert(outer, font_file, LruNew(fs.num_font_objects_per_font))
        inner == outer1.list[1].val
        reuse == LruPeekMruSome(inner)
        hit == LruContains(inner, point_size)
        rc == IF reuse THEN LruPeekMru(inner).val.font_file_content ELSE RcNew(outer1)
        inner1 == LruTryGetOrInsert(inner, point_size, FontNew(point_size, rc, openOk))
        outer2 == [outer1 EXCEPT !.list[1].val = inner1]
        base == [fs |-> [fs EXCEPT !.num_font_objects = outer1], ok |-> FALSE,
                 failed |-> "read", read |-> ~reuse, opened |-> FALSE, rastered |-> FALSE,
                 buffer |-> 0,
                 evicted_files |-> IF LruContains(outer, font_file) THEN {}
                                   ELSE LruEvictedByInsert(outer),
                 evicted_sizes |-> {}]
    IN  IF ~reuse /\ ~readOk THEN base
        ELSE IF ~hit /\ ~openOk
        THEN [base EXCEPT !.failed = "open", !.opened = TRUE, !.buffer = rc]
        ELSE IF ~rasterOk
        THEN [base EXCEPT !.fs = fs, !.failed = "raster", !.opened = ~hit,
                !.rastered = TRUE, !.buffer = rc, !.evicted_files = {}]
        ELSE [base EXCEPT !.fs.num_font_objects = outer2, !.ok = TRUE,
                !.failed = "none", !.opened = ~hit, !.rastered = TRUE, !.buffer = rc,
                !.evicted_sizes = IF hit THEN {} ELSE LruEvictedByInsert(inner)]

\* FontSystem::render making room in the inner cache before Font::new
FontSystemRenderPopFirst(fs, font_file, point_size, readOk, openOk, rasterOk) ==
    LET outer == fs.num_font_objects
        outer1 == LruGetOrInsert(outer, font_file, LruNew(fs.num_font_objects_per_font))
        inner == outer1.list[1].val
        reuse == LruPeekMruSome(inner)
        hit == LruContains(inner, point_size)
        rc == IF reuse THEN LruPeekMru(inner).val.font_file_content ELSE RcNew(outer1)
        inner1 == LruTryGetOrInsert(inner, point_size, FontNew(point_size, rc, openOk))
        popped == IF LruLen(inner) = inner.cap
                  THEN [inner EXCEPT !.list = SubSeq(inner.list, 1, LruLen(inner) - 1)]
                  ELSE inner
        outer2 == [outer1 EXCEPT !.list[1].val = inner1]
        base == [fs |-> [fs EXCEPT !.num_font_objects = outer1], ok |-> FALSE,
                 failed |-> "read", read |-> ~reuse, opened |-> FALSE, rastered |-> FALSE,
                 buffer |-> 0,
                 evicted_files |-> IF LruContains(outer, font_file) THEN {}
                                   ELSE LruEvictedByInsert(outer),
                 evicted_sizes |-> {}]
    IN  IF ~reuse /\ ~readOk THEN base
        ELSE IF ~hit /\ ~openOk
        THEN [base EXCEPT !.fs.num_font_objects.list[1].val = popped,
                !.failed = "open", !.opened = TRUE, !.buffer = rc,
                !.evicted_sizes = LruEvictedByInsert(inner)]
        ELSE [base EXCEPT !.fs.num_font_objects = outer2, !.ok = rasterOk,
                !.failed = IF rasterOk THEN "none" ELSE "raster",
                !.opened = ~hit, !.rastered = TRUE, !.buffer = rc,
                !.evicted_sizes = IF hit THEN {} ELSE LruEvictedByInsert(inner)]

\* FontSystem::render.  readOk, openOk, rasterOk are the outcomes of
\* File::open/read_to_end, Font::new and Font::render, each used only
\* when the call gets that far.
FontSystemRender(fs, font_file, point_size, readOk, openOk, rasterOk) ==
    LET outer == fs.num_font_objects
        outer1 == LruGetOrInsert(outer, font_file, LruNew(fs.num_font_objects_per_font))
        evicted_files == IF LruContains(outer, font_file) THEN {}
                         ELSE LruEvictedByInsert(outer)
        inner == outer1.list[1].val
        reuse == LruPeekMruSome(inner)
        base == [fs |-> [fs EXCEPT !.num_font_objects = outer1], ok |-> FALSE, failed |-> "none",
                 read |-> FALSE, opened |-> FALSE, rastered |-> FALSE, buffer |-> 0,
                 evicted_files |-> evicted_files, evicted_sizes |-> {}]
    IN  IF ~reuse /\ ~readOk
        THEN [base EXCEPT !.failed = "read", !.read = TRUE]
        ELSE
        LET rc == IF reuse THEN LruPeekMru(inner).val.font_file_content
                  ELSE RcNew(outer1)
            hit == LruContains(inner, point_size)
            inner1 == LruTryGetOrInsert(inner, point_size, FontNew(point_size, rc, openOk))
            outer2 == [outer1 EXCEPT !.list[1].val = inner1]
            got == [base EXCEPT !.read = ~reuse, !.opened = ~hit, !.buffer = rc]
        IN  IF ~hit /\ ~openOk
            THEN [got EXCEPT !.failed = "open"]
            ELSE
            LET done == [got EXCEPT !.fs.num_font_objects = outer2, !.rastered = TRUE,
                           !.evicted_sizes = IF hit THEN {} ELSE LruEvictedByInsert(inner)]
            IN  IF rasterOk THEN [done EXCEPT !.ok = TRUE]
                ELSE [done EXCEPT !.failed = "raster"]

-----------------------------------------------------------------------------
(* FileOrRenderedTextKey (render_system_txt_key.rs): paths and texts are   *)
(* sequences of bytes, a text has no zero byte, and the Option<u32>        *)
(* wrap_width is <<>> for None and <<w>> for Some(w).  A u32 w is kept as  *)
(* its two 16-bit halves, U32(hi, lo) = hi * 65536 + lo, since the full    *)
(* range does not fit the integers of TLC.                                 *)

U32(hi, lo) == [hi |-> hi, lo |-> lo]

\* u16::to_be_bytes in its place
u16_to_be_bytes(n) == << (n \div 256) % 256, n % 256 >>

\* u16::to_le_bytes
u16_to_le_bytes(n) == << n % 256, (n \div 256) % 256 >>

\* u32::to_be_bytes in its place
u32_to_be_bytes(n) ==
    << (n.hi \div 256) % 256, n.hi % 256, (n.lo \div 256) % 256, n.lo % 256 >>

\* u32::to_le_bytes
u32_to_le_bytes(n) ==
    << n.lo % 256, (n.lo \div 256) % 256, n.hi % 256, (n.hi \div 256) % 256 >>

\* CStr::to_bytes in its place: the text without its terminator
to_bytes_without_nul(text) == text

\* CStr::to_bytes_with_nul
to_bytes_with_nul(text) == text \o <<0>>

\* a byte of the buffer that set_len exposed and nothing has written yet
Uninit == -1

\* reserve_exact(data_len) and set_len(data_len), with the write index at 0
\* (written lists the indices that have been assigned, in order)
KeyAlloc(data_len) ==
    [data |-> [i \in 1..data_len |-> Uninit], data_len |-> data_len,
     index |-> 0, panicked |-> FALSE, written |-> <<>>]

\* data[index] = byte; index += 1 (an index past the length panics)
KeyPut(b, byte) ==
    IF b.panicked \/ b.index >= Len(b.data)
    THEN [b EXCEPT !.panicked = TRUE]
    ELSE [b EXCEPT !.data[b.index + 1] = byte, !.index = b.index + 1,
                   !.written = Append(@, b.index)]

\* bytes.iter().for_each(|&byte| { data[index] = byte; index += 1; })
RECURSIVE KeyPutAll(_, _)
KeyPutAll(b, bytes) ==
    IF bytes = <<>> THEN b
    ELSE KeyPutAll(KeyPut(b, Head(bytes)), Tail(bytes))

\* from_path with the write index starting at 0 for the path bytes
from_path_build_index0(texture_path) ==
    KeyPutAll([KeyPut(KeyAlloc(1 + Len(texture_path)), 0) EXCEPT !.index = 0],
              texture_path)

from_path_build(texture_path) ==
    KeyPutAll(KeyPut(KeyAlloc(1 + Len(texture_path)), 0), texture_path)

\* from_rendered_text writing the first byte that from_path writes
from_rendered_text_build_tag0(text, font_file, point_size) ==
    LET text_bytes == to_bytes_with_nul(text)
        point_size_bytes == u16_to_le_bytes(point_size)
        data_len == 1 + 2 + Len(text_bytes) + Len(font_file)
        fixed == KeyPut(KeyPut(KeyPut(KeyAlloc(data_len), 0),
                               point_size_bytes[1]), point_size_bytes[2])
    IN  KeyPutAll(KeyPutAll(fixed, text_bytes), font_file)

from_rendered_text_build(text, font_file, point_size) ==
    LET text_bytes == to_bytes_with_nul(text)
        point_size_bytes == u16_to_le_bytes(point_size)
        data_len == 1 + 2 + Len(text_bytes) + Len(font_file)
        fixed == KeyPut(KeyPut(KeyPut(KeyAlloc(data_len), 1),
                               point_size_bytes[1]), point_size_bytes[2])
    IN  KeyPutAll(KeyPutAll(fixed, text_bytes), font_file)

\* from_rendered_wrapped_text leaving size_of::<u32>() out of data_len
from_rendered_wrapped_text_build_short(text, font_file, point_size, wrap_width) ==
    LET text_bytes == to_bytes_with_nul(text)
        point_size_bytes == u16_to_le_bytes(point_size)
        wrap_width_bytes == u32_to_le_bytes(wrap_width)
        data_len == 1 + 2 + Len(text_bytes) + Len(font_file)
        sized == KeyPut(KeyPut(KeyPut(KeyAlloc(data_len), 2),
                               point_size_bytes[1]), point_size_bytes[2])
        fixed == KeyPut(KeyPut(KeyPut(KeyPut(sized,
                     wrap_width_bytes[1]), wrap_width_bytes[2]),
                     wrap_width_bytes[3]), wrap_width_bytes[4])
    IN  KeyPutAll(KeyPutAll(fixed, text_bytes), font_file)

from_rendered_wrapped_text_build(text, font_file, point_size, wrap_width) ==
    LET text_bytes == to_bytes_with_nul(text)
        point_size_bytes == u16_to_le_bytes(point_size)
        wrap_width_bytes == u32_to_le_bytes(wrap_width)
        data_len == 1 + 2 + 4 + Len(text_bytes) + Len(font_file)
        sized == KeyPut(KeyPut(KeyPut(KeyAlloc(data_len), 2),
                               point_size_bytes[1]), point_size_bytes[2])
        fixed == KeyPut(KeyPut(KeyPut(KeyPut(sized,
                     wrap_width_bytes[1]), wrap_width_bytes[2]),
                     wrap_width_bytes[3]), wrap_width_bytes[4])
    IN  KeyPutAll(KeyPutAll(fixed, text_bytes), font_file)

\* the key itself: Self { data }
from_path(texture_path) == from_path_build(texture_path).data

from_rendered_text(text, font_file, point_size) ==
    from_rendered_text_build(text, font_file, point_size).data

from_rendered_wrapped_text(text, font_file, point_size, wrap_width) ==
    from_rendered_wrapped_text_build(text, font_file, point_size, wrap_width).data

\* the key RenderSystem::text builds (render_system.rs:69-74)
TextKey(text, font_file, point_size, wrap_width) ==
    IF wrap_width = <<>>
    THEN from_rendered_text(text, font_file, point_size)
    ELSE from_rendered_wrapped_text(text, font_file, point_size, wrap_width[1])

-----------------------------------------------------------------------------
(* RenderSystem (render_system.rs).                                        *)

\* RenderSystem::new with room for one texture too many
RenderSystemNewOneMore(num_loaded_textures) ==
    [textures |-> LruNew(num_loaded_textures + 1)]

RenderSystemNew(num_loaded_textures) == [textures |-> LruNew(num_loaded_textures)]

\* RenderSystem::texture looking the texture up without marking it used
RenderSystemTextureNoPromote(rs, path, loadOk) ==
    LET key == from_path(path)
        hit == LruContains(rs.textures, key)
        res == IF loadOk THEN [ok |-> TRUE, val |-> [image |-> path]] ELSE [ok |-> FALSE]
    IN  [rs |-> IF hit THEN rs
                ELSE [rs EXCEPT !.textures = LruTryGetOrInsert(rs.textures, key, res)],
         key |-> key, hit |-> hit, ok |-> hit \/ loadOk,
         failed |-> IF hit \/ loadOk THEN "none" ELSE "load",
         loaded |-> ~hit,
         evicted |-> IF ~hit /\ loadOk THEN LruEvictedByInsert(rs.textures) ELSE {}]

\* RenderSystem::texture: on a miss load_texture decodes and uploads the image
RenderSystemTexture(rs, path, loadOk) ==
    LET key == from_path(path)
        hit == LruContains(rs.textures, key)
        res == IF loadOk THEN [ok |-> TRUE, val |-> [image |-> path]] ELSE [ok |-> FALSE]
    IN  [rs |-> [rs EXCEPT !.textures = LruTryGetOrInsert(rs.textures, key, res)],
         key |-> key, hit |-> hit, ok |-> hit \/ loadOk,
         failed |-> IF hit \/ loadOk THEN "none" ELSE "load",
         loaded |-> ~hit,
         evicted |-> IF ~hit /\ loadOk THEN LruEvictedByInsert(rs.textures) ELSE {}]

\* RenderSystem::text rendering the surface before it looks the key up
RenderSystemTextEager(rs, fs, font_file, point_size, text, wrap_width, o) ==
    LET key == TextKey(text, font_file, point_size, wrap_width)
        hit == LruContains(rs.textures, key)
        r == FontSystemRender(fs, font_file, point_size, o.readOk, o.openOk, o.rasterOk)
        ok == hit \/ (r.ok /\ o.uploadOk)
        res == IF ok
               THEN [ok |-> TRUE,
                     val |-> [surface |-> <<font_file, point_size, text, wrap_width>>]]
               ELSE [ok |-> FALSE]
    IN  [rs |-> [rs EXCEPT !.textures = LruTryGetOrInsert(rs.textures, key, res)],
         fs |-> r.fs, key |-> key, hit |-> hit, ok |-> ok,
         failed |-> IF ok THEN "none" ELSE IF ~r.ok THEN r.failed ELSE "upload",
         rendered |-> TRUE, read |-> r.read, opened |-> r.opened,
         rastered |-> r.rastered, uploaded |-> r.ok,
         evicted |-> IF ok /\ ~hit THEN LruEvictedByInsert(rs.textures) ELSE {}]

\* RenderSystem::text making room for the texture before it is computed
RenderSystemTextEvictFirst(rs, fs, font_file, point_size, text, wrap_width, o) ==
    LET key == TextKey(text, font_file, point_size, wrap_width)
        hit == LruContains(rs.textures, key)
        r == FontSystemRender(fs, font_file, point_size, o.readOk, o.openOk, o.rasterOk)
        ok == r.ok /\ o.uploadOk
        room == IF LruLen(rs.textures) = rs.textures.cap
                THEN [rs.textures EXCEPT
                        !.list = SubSeq(rs.textures.list, 1, Len(rs.textures.list) - 1)]
                ELSE rs.textures
        val == [surface |-> <<font_file, point_size, text, wrap_width>>]
    IN  IF hit
        THEN [rs |-> [rs EXCEPT !.textures = LruPromote(rs.textures, key)],
              fs |-> fs, key |-> key, hit |-> TRUE, ok |-> TRUE, failed |-> "none",
              rendered |-> FALSE, read |-> FALSE, opened |-> FALSE, rastered |-> FALSE,
              uploaded |-> FALSE, evicted |-> {}]
        ELSE [rs |-> [rs EXCEPT !.textures = IF ok THEN LruInsert(room, key, val) ELSE room],
              fs |-> r.fs, key |-> key, hit |-> FALSE, ok |-> ok,
              failed |-> IF ~r.ok THEN r.failed ELSE IF ok THEN "none" ELSE "upload",
              rendered |-> TRUE, read |-> r.read, opened |-> r.opened,
              rastered |-> r.rastered, uploaded |-> r.ok,
              evicted |-> LruEvictedByInsert(rs.textures)]

\* RenderSystem::text marking the font file as used on a texture hit
RenderSystemTextPromoteFont(rs, fs, font_file, point_size, text, wrap_width, o) ==
    LET key == TextKey(text, font_file, point_size, wrap_width)
        hit == LruContains(rs.textures, key)
        r == FontSystemRender(fs, font_file, point_size, o.readOk, o.openOk, o.rasterOk)
        ok == r.ok /\ o.uploadOk
        res == IF ok
               THEN [ok |-> TRUE,
                     val |-> [surface |-> <<font_file, point_size, text, wrap_width>>]]
               ELSE [ok |-> FALSE]
    IN  IF hit
        THEN [rs |-> [rs EXCEPT !.textures = LruPromote(rs.textures, key)],
              fs |-> IF LruContains(fs.num_font_objects, font_file)
                     THEN [fs EXCEPT !.num_font_objects = LruPromote(@, font_file)]
                     ELSE fs,
              key |-> key, hit |-> TRUE, ok |-> TRUE, failed |-> "none",
              rendered |-> FALSE, read |-> FALSE, opened |-> FALSE, rastered |-> FALSE,
              uploaded |-> FALSE, evicted |-> {}]
        ELSE [rs |-> [rs EXCEPT !.textures = LruTryGetOrInsert(rs.textures, key, res)],
              fs |-> r.fs, key |-> key, hit |-> FALSE, ok |-> ok,
              failed |-> IF ~r.ok THEN r.failed ELSE IF ok THEN "none" ELSE "upload",
              rendered |-> TRUE, read |-> r.read, opened |-> r.opened,
              rastered |-> r.rastered, uploaded |-> r.ok,
              evicted |-> IF ok THEN LruEvictedByInsert(rs.textures) ELSE {}]

\* RenderSystem::text serving a cached texture only while its font object
\* is cached, and rendering it again otherwise
RenderSystemTextNeedsFont(rs, fs, font_file, point_size, text, wrap_width, o) ==
    LET key == TextKey(text, font_file, point_size, wrap_width)
        hit == /\ LruContains(rs.textures, key)
               /\ LruContains(fs.num_font_objects, font_file)
               /\ LruContains(LruPeek(fs.num_font_objects, font_file), point_size)
        r == FontSystemRender(fs, font_file, point_size, o.readOk, o.openOk, o.rasterOk)
        ok == r.ok /\ o.uploadOk
        res == IF ok
               THEN [ok |-> TRUE,
                     val |-> [surface |-> <<font_file, point_size, text, wrap_width>>]]
               ELSE [ok |-> FALSE]
    IN  IF hit
        THEN [rs |-> [rs EXCEPT !.textures = LruPromote(rs.textures, key)],
              fs |-> fs, key |-> key, hit |-> TRUE, ok |-> TRUE, failed |-> "none",
              rendered |-> FALSE, read |-> FALSE, opened |-> FALSE, rastered |-> FALSE,
              uploaded |-> FALSE, evicted |-> {}]
        ELSE [rs |-> [rs EXCEPT !.textures = LruTryGetOrInsert(rs.textures, key, res)],
              fs |-> r.fs, key |-> key, hit |-> FALSE, ok |-> ok,
              failed |-> IF ~r.ok THEN r.failed ELSE IF ok THEN "none" ELSE "upload",
              rendered |-> TRUE, read |-> r.read, opened |-> r.opened,
              rastered |-> r.rastered, uploaded |-> r.ok,
              evicted |-> IF ok /\ ~LruContains(rs.textures, key)
                          THEN LruEvictedByInsert(rs.textures) ELSE {}]

\* RenderSystem::text: on a miss FontSystem::render makes the surface and
\* create_texture_from_surface uploads it
RenderSystemText(rs, fs, font_file, point_size, text, wrap_width, o) ==
    LET key == TextKey(text, font_file, point_size, wrap_width)
        hit == LruContains(rs.textures, key)
        r == FontSystemRender(fs, font_file, point_size, o.readOk, o.openOk, o.rasterOk)
        ok == r.ok /\ o.uploadOk
        res == IF ok
               THEN [ok |-> TRUE,
                     val |-> [surface |-> <<font_file, point_size, text, wrap_width>>]]
               ELSE [ok |-> FALSE]
    IN  IF hit
        THEN [rs |-> [rs EXCEPT !.textures = LruPromote(rs.textures, key)],
              fs |-> fs, key |-> key, hit |-> TRUE, ok |-> TRUE, failed |-> "none",
              rendered |-> FALSE, read |-> FALSE, opened |-> FALSE, rastered |-> FALSE,
              uploaded |-> FALSE, evicted |-> {}]
        ELSE [rs |-> [rs EXCEPT !.textures = LruTryGetOrInsert(rs.textures, key, res)],
              fs |-> r.fs, key |-> key, hit |-> FALSE, ok |-> ok,
              failed |-> IF ~r.ok THEN r.failed ELSE IF ok THEN "none" ELSE "upload",
              rendered |-> TRUE, read |-> r.read, opened |-> r.opened,
              rastered |-> r.rastered, uploaded |-> r.ok,
              evicted |-> IF ok THEN LruEvictedByInsert(rs.textures) ELSE {}]

\* Drop of a RenderSystem with cc declared before textures
RenderSystemDropCcFirst(rs) ==
    << [part |-> "canvas"], [part |-> "creator"] >>
    \o [i \in 1..LruLen(rs.textures) |->
          [part |-> "texture", key |-> rs.textures.list[i].key]]

\* Drop of a RenderSystem, as the sequence of what is destroyed: the fields
\* in the order of their declaration, textures (each cached Texture) and
\* then cc, whose fields are canvas and then creator
RenderSystemDrop(rs) ==
    [i \in 1..LruLen(rs.textures) |->
          [part |-> "texture", key |-> rs.textures.list[i].key]]
    \o << [part |-> "canvas"], [part |-> "creator"] >>

-----------------------------------------------------------------------------
(* AudioSystem (audio_system.rs).  A Chunk is the handle Chunk::from_file  *)
(* returned, a number that no cached chunk has.                            *)

\* the values constants::MAX_LOADED_SOUNDS may have (a cache capacity, at
\* least 1)
MAX_LOADED_SOUNDS == 1..MaxCap

\* AudioSystem::new, for a value of MAX_LOADED_SOUNDS
AudioSystemNew(max_loaded_sounds) == [chunks |-> LruNew(max_loaded_sounds)]

LiveChunks(chunks) == { chunks.list[i].val.chunk : i \in 1..Len(chunks.list) }

\* Chunk::from_file: a new chunk
ChunkNew(chunks) ==
    CHOOSE n \in 1..(Cardinality(LiveChunks(chunks)) + 1) : n \notin LiveChunks(chunks)

\* AudioSystem::play decoding the file whether or not the chunk is cached
AudioSystemPlayAlwaysDecode(as, path, decodeOk) ==
    LET hit == LruContains(as.chunks, path)
        res == IF decodeOk
               THEN [ok |-> TRUE, val |-> [chunk |-> ChunkNew(as.chunks)]]
               ELSE [ok |-> FALSE]
        chunks1 == LruTryGetOrInsert(as.chunks, path, res)
    IN  IF ~decodeOk
        THEN [as |-> as, ok |-> FALSE, failed |-> "decode", hit |-> hit,
              decoded |-> TRUE, played |-> <<>>, evicted |-> {}]
        ELSE [as |-> [as EXCEPT !.chunks = chunks1], ok |-> TRUE, failed |-> "none",
              hit |-> hit, decoded |-> TRUE,
              played |-> << chunks1.list[1].val.chunk >>,
              evicted |-> IF hit THEN {} ELSE LruEvictedByInsert(as.chunks)]

\* AudioSystem::play.  decodeOk is the outcome of Chunk::from_file, called
\* on a miss only; played lists the chunks given to Channel::all().play
AudioSystemPlay(as, path, decodeOk) ==
    LET hit == LruContains(as.chunks, path)
        res == IF decodeOk
               THEN [ok |-> TRUE, val |-> [chunk |-> ChunkNew(as.chunks)]]
               ELSE [ok |-> FALSE]
        chunks1 == LruTryGetOrInsert(as.chunks, path, res)
    IN  IF ~hit /\ ~decodeOk
        THEN [as |-> as, ok |-> FALSE, failed |-> "decode", hit |-> FALSE,
              decoded |-> TRUE, played |-> <<>>, evicted |-> {}]
        ELSE [as |-> [as EXCEPT !.chunks = chunks1], ok |-> TRUE, failed |-> "none",
              hit |-> hit, decoded |-> ~hit,
              played |-> << chunks1.list[1].val.chunk >>,
              evicted |-> IF hit THEN {} ELSE LruEvictedByInsert(as.chunks)]

-----------------------------------------------------------------------------
(* Observations.                                                           *)

NoCall == [op |-> "none"]

EmptyMap == [n \in {} |-> 0]

EmptyLog == [complete |-> TRUE, calls |-> <<>>]

\* the log stays the complete history only while every call succeeds
Record(l, e) ==
    IF l.complete /\ e.ok /\ Len(l.calls) < MaxLog
    THEN [l EXCEPT !.calls = Append(l.calls, e)]
    ELSE [complete |-> FALSE, calls |-> <<>>]

\* which of File::open/read_to_end, Font::new, Font::render fails, if reached
\* (rwopsOk tells, when Font::new fails, whether SDL_RWFromConstMem had
\* returned a stream)
FontOutcomes ==
    { [readOk |-> TRUE, rwopsOk |-> TRUE, openOk |-> TRUE, rasterOk |-> TRUE],
      [readOk |-> FALSE, rwopsOk |-> TRUE, openOk |-> TRUE, rasterOk |-> TRUE],
      [readOk |-> TRUE, rwopsOk |-> FALSE, openOk |-> FALSE, rasterOk |-> TRUE],
      [readOk |-> TRUE, rwopsOk |-> TRUE, openOk |-> FALSE, rasterOk |-> TRUE],
      [readOk |-> TRUE, rwopsOk |-> TRUE, openOk |-> TRUE, rasterOk |-> FALSE] }

\* the same for a text request, with create_texture_from_surface after them
TextOutcomes ==
    { [readOk |-> TRUE, openOk |-> TRUE, rasterOk |-> TRUE, uploadOk |-> TRUE],
      [readOk |-> FALSE, openOk |-> TRUE, rasterOk |-> TRUE, uploadOk |-> TRUE],
      [readOk |-> TRUE, openOk |-> FALSE, rasterOk |-> TRUE, uploadOk |-> TRUE],
      [readOk |-> TRUE, openOk |-> TRUE, rasterOk |-> FALSE, uploadOk |-> TRUE],
      [readOk |-> TRUE, openOk |-> TRUE, rasterOk |-> TRUE, uploadOk |-> FALSE] }

-----------------------------------------------------------------------------
(* ChimericSystem (system.rs): the window map over one shared font system. *)

\* ChimericSystem::new
ChimericSystemNew(s) ==
    [settings |-> s,
     font_system |-> FontSystemNew(s.num_point_sizes_per_font, s.num_fonts),
     windows |-> EmptyMap]

\* add_window putting the new RenderSystem in with HashMap::insert
AddWindowInsert(window_name, buildOk) ==
    LET exists == window_name \in DOMAIN windows
        sys == RenderSystemNew(settings.num_textures_per_window)
    IN  /\ windows' = IF buildOk
                      THEN [n \in DOMAIN windows \cup {window_name} |->
                              IF n = window_name THEN sys ELSE windows[n]]
                      ELSE windows
        /\ last' = [op |-> "add_window", window |-> window_name,
                    ok |-> buildOk /\ ~exists,
                    failed |-> IF ~buildOk THEN "build" ELSE IF exists THEN "exists" ELSE "none"]
        /\ log' = [complete |-> FALSE, calls |-> <<>>]
        /\ UNCHANGED <<settings, font_system, keyvars, sounds>>

\* ChimericSystem::add_window.  buildOk is the outcome of CanvasAndCreator::new
AddWindow(window_name, buildOk) ==
    LET exists == window_name \in DOMAIN windows
        ok == buildOk /\ ~exists
        sys == RenderSystemNew(settings.num_textures_per_window)
    IN  /\ windows' = IF ok
                      THEN [n \in DOMAIN windows \cup {window_name} |->
                              IF n = window_name THEN sys ELSE windows[n]]
                      ELSE windows
        /\ last' = [op |-> "add_window", window |-> window_name, ok |-> ok,
                    failed |-> IF ~buildOk THEN "build" ELSE IF exists THEN "exists" ELSE "none"]
        /\ log' = [complete |-> FALSE, calls |-> <<>>]
        /\ UNCHANGED <<settings, font_system, keyvars, sounds>>

\* remove_window clearing the window map
RemoveWindowClear(window_name) ==
    LET exists == window_name \in DOMAIN windows
    IN  /\ windows' = IF exists THEN EmptyMap ELSE windows
        /\ last' = [op |-> "remove_window", window |-> window_name, ok |-> exists,
                    failed |-> IF exists THEN "none" ELSE "missing",
                    drops |-> [n \in DOMAIN windows \cap {window_name} |->
                                 RenderSystemDrop(windows[n])]]
        /\ log' = [complete |-> FALSE, calls |-> <<>>]
        /\ UNCHANGED <<settings, font_system, keyvars, sounds>>

\* ChimericSystem::remove_window; the removed RenderSystem is dropped at the
\* end of the match arm
RemoveWindow(window_name) ==
    LET exists == window_name \in DOMAIN windows
    IN  /\ windows' = [n \in DOMAIN windows \ {window_name} |-> windows[n]]
        /\ last' = [op |-> "remove_window", window |-> window_name, ok |-> exists,
                    failed |-> IF exists THEN "none" ELSE "missing",
                    drops |-> [n \in DOMAIN windows \cap {window_name} |->
                                 RenderSystemDrop(windows[n])]]
        /\ log' = [complete |-> FALSE, calls |-> <<>>]
        /\ UNCHANGED <<settings, font_system, keyvars, sounds>>

\* drop of the ChimericSystem: every RenderSystem of the window map is
\* dropped, and the font system with it
DropSystem ==
    /\ windows' = EmptyMap
    /\ font_system' = [font_system EXCEPT !.num_font_objects.list = <<>>]
    /\ last' = [op |-> "drop", ok |-> TRUE,
                drops |-> [n \in DOMAIN windows |-> RenderSystemDrop(windows[n])]]
    /\ log' = [complete |-> FALSE, calls |-> <<>>]
    /\ UNCHANGED <<settings, keyvars, sounds>>

\* what a call on a window that does not exist reports
NoWindow(op, window_name) ==
    [op |-> op, window |-> window_name, exists |-> FALSE, ok |-> FALSE,
     failed |-> "window", hit |-> FALSE, loaded |-> FALSE, rendered |-> FALSE,
     read |-> FALSE, opened |-> FALSE, rastered |-> FALSE, uploaded |-> FALSE]

\* texture with one texture cache for all windows
TextureAllWindows(window_name, path, loadOk) ==
    IF window_name \notin DOMAIN windows
    THEN /\ last' = NoWindow("texture", window_name)
         /\ log' = Record(log, last')
         /\ UNCHANGED <<settings, font_system, windows, keyvars, sounds>>
    ELSE \E r \in { RenderSystemTexture(windows[window_name], path, loadOk) } :
         LET e == [op |-> "texture", window |-> window_name, exists |-> TRUE,
                   key |-> r.key, hit |-> r.hit, ok |-> r.ok, failed |-> r.failed,
                   loaded |-> r.loaded, rendered |-> FALSE, read |-> FALSE,
                   opened |-> FALSE, rastered |-> FALSE, uploaded |-> r.loaded /\ r.ok,
                   evictions |-> Cardinality(r.evicted)]
         IN  /\ windows' = [n \in DOMAIN windows |-> r.rs]
             /\ last' = e
             /\ log' = Record(log, e @@ [evicted |-> r.evicted])
             /\ UNCHANGED <<settings, font_system, keyvars, sounds>>

\* ChimericSystem::texture, the base of copy, copy_f, copy_ex, copy_ex_f
Texture(window_name, path, loadOk) ==
    IF window_name \notin DOMAIN windows
    THEN /\ last' = NoWindow("texture", window_name)
         /\ log' = Record(log, last')
         /\ UNCHANGED <<settings, font_system, windows, keyvars, sounds>>
    ELSE \E r \in { RenderSystemTexture(windows[window_name], path, loadOk) } :
         LET e == [op |-> "texture", window |-> window_name, exists |-> TRUE,
                   key |-> r.key, hit |-> r.hit, ok |-> r.ok, failed |-> r.failed,
                   loaded |-> r.loaded, rendered |-> FALSE, read |-> FALSE,
                   opened |-> FALSE, rastered |-> FALSE, uploaded |-> r.loaded /\ r.ok,
                   evictions |-> Cardinality(r.evicted)]
         IN  /\ windows' = [windows EXCEPT ![window_name] = r.rs]
             /\ last' = e
             /\ log' = Record(log, e @@ [evicted |-> r.evicted])
             /\ UNCHANGED <<settings, font_system, keyvars, sounds>>

\* text rendering through the font system before it looks the window up
TextFontFirst(window_name, font_file, point_size, text, wrap_width, o) ==
    IF window_name \notin DOMAIN windows
    THEN \E f \in { FontSystemRender(font_system, font_file, point_size,
                                     o.readOk, o.openOk, o.rasterOk) } :
         /\ font_system' = f.fs
         /\ last' = [NoWindow("text", window_name) EXCEPT
                        !.read = f.read, !.opened = f.opened, !.rastered = f.rastered]
         /\ log' = Record(log, last')
         /\ UNCHANGED <<settings, windows, keyvars, sounds>>
    ELSE \E r \in { RenderSystemText(windows[window_name], font_system,
                                   font_file, point_size, text, wrap_width, o) } :
         LET e == [op |-> "text", window |-> window_name, exists |-> TRUE,
                   font_file |-> font_file, point_size |-> point_size,
                   key |-> r.key, hit |-> r.hit, ok |-> r.ok, failed |-> r.failed,
                   loaded |-> FALSE, rendered |-> r.rendered, read |-> r.read,
                   opened |-> r.opened, rastered |-> r.rastered, uploaded |-> r.uploaded,
                   evictions |-> Cardinality(r.evicted)]
         IN  /\ windows' = [windows EXCEPT ![window_name] = r.rs]
             /\ font_system' = r.fs
             /\ last' = e
             /\ log' = Record(log, e @@ [evicted |-> r.evicted])
             /\ UNCHANGED <<settings, keyvars, sounds>>

\* text with a font system of the window's own, new at each call
TextFreshFonts(window_name, font_file, point_size, text, wrap_width, o) ==
    IF window_name \notin DOMAIN windows
    THEN /\ last' = NoWindow("text", window_name)
         /\ log' = Record(log, last')
         /\ UNCHANGED <<settings, font_system, windows, keyvars, sounds>>
    ELSE \E r \in { RenderSystemText(windows[window_name],
                        FontSystemNew(settings.num_point_sizes_per_font, settings.num_fonts),
                        font_file, point_size, text, wrap_width, o) } :
         LET e == [op |-> "text", window |-> window_name, exists |-> TRUE,
                   font_file |-> font_file, point_size |-> point_size,
                   key |-> r.key, hit |-> r.hit, ok |-> r.ok, failed |-> r.failed,
                   loaded |-> FALSE, rendered |-> r.rendered, read |-> r.read,
                   opened |-> r.opened, rastered |-> r.rastered, uploaded |-> r.uploaded,
                   evictions |-> Cardinality(r.evicted)]
         IN  /\ windows' = [windows EXCEPT ![window_name] = r.rs]
             /\ font_system' = IF r.hit THEN font_system ELSE r.fs
             /\ last' = e
             /\ log' = Record(log, e @@ [evicted |-> r.evicted])
             /\ UNCHANGED <<settings, keyvars, sounds>>

\* ChimericSystem::text, the base of copy_text, copy_text_f, copy_text_ex, copy_text_ex_f
Text(window_name, font_file, point_size, text, wrap_width, o) ==
    IF window_name \notin DOMAIN windows
    THEN /\ last' = NoWindow("text", window_name)
         /\ log' = Record(log, last')
         /\ UNCHANGED <<settings, font_system, windows, keyvars, sounds>>
    ELSE \E r \in { RenderSystemText(windows[window_name], font_system,
                                   font_file, point_size, text, wrap_width, o) } :
         LET e == [op |-> "text", window |-> window_name, exists |-> TRUE,
                   font_file |-> font_file, point_size |-> point_size,
                   key |-> r.key, hit |-> r.hit, ok |-> r.ok, failed |-> r.failed,
                   loaded |-> FALSE, rendered |-> r.rendered, read |-> r.read,
                   opened |-> r.opened, rastered |-> r.rastered, uploaded |-> r.uploaded,
                   evictions |-> Cardinality(r.evicted)]
         IN  /\ windows' = [windows EXCEPT ![window_name] = r.rs]
             /\ font_system' = r.fs
             /\ last' = e
             /\ log' = Record(log, e @@ [evicted |-> r.evicted])
             /\ UNCHANGED <<settings, keyvars, sounds>>

-----------------------------------------------------------------------------
(* The font system on its own: any sequence of FontSystem::render calls.   *)

InitFont ==
    /\ settings \in [num_point_sizes_per_font : 1..MaxCap,
                     num_fonts : 1..MaxCap,
                     num_textures_per_window : {1}]
    /\ font_system = FontSystemNew(settings.num_point_sizes_per_font, settings.num_fonts)
    /\ windows = EmptyMap
    /\ last = NoCall
    /\ log = EmptyLog
    /\ key_inputs = <<>>
    /\ key_built = <<>>
    /\ sounds = AudioSystemNew(1)

Render(font_file, point_size, o) ==
    \E r \in { FontSystemRender(font_system, font_file, point_size,
                               o.readOk, o.openOk, o.rasterOk) } :
    LET e == [op |-> "render", font_file |-> font_file, point_size |-> point_size,
              ok |-> r.ok, failed |-> r.failed, read |-> r.read, opened |-> r.opened,
              rastered |-> r.rastered, buffer |-> r.buffer,
              cold |-> ~LruContains(font_system.num_font_objects, font_file),
              acquired |-> IF r.opened THEN FontNewAcquires(o.rwopsOk, o.openOk)
                           ELSE FontNewAcquires(FALSE, FALSE),
              dropped |-> FontsDropped(font_system, r),
              evicted_sizes |-> r.evicted_sizes,
              rc |-> FontSystemRenderRc(font_system, font_file, point_size,
                                        o.readOk, o.openOk),
              released |-> [rwops |-> FontsDropped(font_system, r) * FontDrop.rwops,
                            fonts |-> FontsDropped(font_system, r) * FontDrop.fonts]]
        x == [evicted_files |-> r.evicted_files, evicted_sizes |-> r.evicted_sizes]
    IN  /\ font_system' = r.fs
        /\ last' = e
        /\ log' = Record(log, e @@ x)
        /\ UNCHANGED <<settings, windows, keyvars, sounds>>

NextFont ==
    \E font_file \in FontFiles, point_size \in PointSizes, o \in FontOutcomes :
        Render(font_file, point_size, o)

SpecFont == InitFont /\ [][NextFont]_vars

-----------------------------------------------------------------------------
(* One render system over a font system: any sequence of RenderSystem::text *)
(* and RenderSystem::texture calls on the window "main".                   *)

RenderPaths == { <<105>>, <<106>> }
RenderRequests ==
    { [font_file |-> <<70>>, point_size |-> ps, text |-> <<116>>, wrap_width |-> w] :
        ps \in {10, 12}, w \in {<<>>, <<U32(0, 300)>>} }

InitRender ==
    /\ settings \in [num_point_sizes_per_font : {1},
                     num_fonts : {1},
                     num_textures_per_window : 1..MaxCap]
    /\ font_system = ChimericSystemNew(settings).font_system
    /\ windows = [n \in {"main"} |-> RenderSystemNew(settings.num_textures_per_window)]
    /\ last = NoCall
    /\ log = EmptyLog
    /\ key_inputs = <<>>
    /\ key_built = <<>>
    /\ sounds = AudioSystemNew(1)

NextRender ==
    \/ \E path \in RenderPaths, loadOk \in BOOLEAN : Texture("main", path, loadOk)
    \/ \E q \in RenderRequests, o \in TextOutcomes :
          Text("main", q.font_file, q.point_size, q.text, q.wrap_width, o)

SpecRender == InitRender /\ [][NextRender]_vars

-----------------------------------------------------------------------------
(* The whole system: the window "a" is added and removed, and draws        *)
(* through the font system.                                                *)

WindowNames == { "a" }
Paths == { <<105>> }
Requests ==
    { [font_file |-> <<70>>, point_size |-> 10, text |-> <<116>>, wrap_width |-> <<>>],
      [font_file |-> <<70>>, point_size |-> 12, text |-> <<116>>, wrap_width |-> <<>>],
      [font_file |-> <<71>>, point_size |-> 10, text |-> <<116>>, wrap_width |-> <<>>] }

SystemSettings ==
    [num_point_sizes_per_font : 1..MaxCap,
     num_fonts : 1..MaxCap,
     num_textures_per_window : 1..MaxCap]

Init ==
    /\ settings \in SystemSettings
    /\ font_system = ChimericSystemNew(settings).font_system
    /\ windows = EmptyMap
    /\ last = NoCall
    /\ log = [complete |-> FALSE, calls |-> <<>>]
    /\ key_inputs = <<>>
    /\ key_built = <<>>
    /\ sounds = AudioSystemNew(1)

Next ==
    \/ \E n \in WindowNames, buildOk \in BOOLEAN : AddWindow(n, buildOk)
    \/ \E n \in WindowNames : RemoveWindow(n)
    \/ \E n \in WindowNames, path \in Paths, loadOk \in BOOLEAN : Texture(n, path, loadOk)
    \/ \E n \in WindowNames, q \in Requests, o \in TextOutcomes :
          Text(n, q.font_file, q.point_size, q.text, q.wrap_width, o)

Spec == Init /\ [][Next]_vars

-----------------------------------------------------------------------------
(* Two windows "a" and "b" over the font system, each holding up to two    *)
(* textures, until the system is dropped.                                  *)

TwoWindows == { "a", "b" }
WindowPaths == { <<105>> }
WindowRequests ==
    { [font_file |-> <<70>>, point_size |-> 10, text |-> <<116>>, wrap_width |-> <<>>] }

InitWindows ==
    /\ settings = [num_point_sizes_per_font |-> 1, num_fonts |-> 1,
                   num_textures_per_window |-> MaxCap]
    /\ font_system = ChimericSystemNew(settings).font_system
    /\ windows = ChimericSystemNew(settings).windows
    /\ last = NoCall
    /\ log = [complete |-> FALSE, calls |-> <<>>]
    /\ key_inputs = <<>>
    /\ key_built = <<>>
    /\ sounds = AudioSystemNew(1)

Dropped == last.op = "drop"

NextWindows ==
    \/ ~Dropped /\ \E n \in TwoWindows, buildOk \in BOOLEAN : AddWindow(n, buildOk)
    \/ ~Dropped /\ \E n \in TwoWindows : RemoveWindow(n)
    \/ ~Dropped /\ \E n \in TwoWindows, path \in WindowPaths, loadOk \in BOOLEAN :
                      Texture(n, path, loadOk)
    \/ ~Dropped /\ \E n \in TwoWindows, q \in WindowRequests, o \in TextOutcomes :
                      Text(n, q.font_file, q.point_size, q.text, q.wrap_width, o)
    \/ ~Dropped /\ DropSystem

SpecWindows == InitWindows /\ [][NextWindows]_vars

-----------------------------------------------------------------------------
(* An audio system on its own: any sequence of AudioSystem::play calls.    *)

SoundPaths == { <<115>>, <<116>>, <<117>> }

InitAudio ==
    /\ settings = [num_point_sizes_per_font |-> 1, num_fonts |-> 1,
                   num_textures_per_window |-> 1]
    /\ font_system = FontSystemNew(1, 1)
    /\ windows = EmptyMap
    /\ last = NoCall
    /\ log = [complete |-> FALSE, calls |-> <<>>]
    /\ key_inputs = <<>>
    /\ key_built = <<>>
    /\ sounds \in { AudioSystemNew(n) : n \in MAX_LOADED_SOUNDS }

Play(path, decodeOk) ==
    \E r \in { AudioSystemPlay(sounds, path, decodeOk) } :
        /\ sounds' = r.as
        /\ last' = [op |-> "play", path |-> path, ok |-> r.ok, failed |-> r.failed,
                    hit |-> r.hit, decoded |-> r.decoded, played |-> r.played,
                    evicted |-> r.evicted]
        /\ UNCHANGED <<settings, font_system, windows, log, keyvars>>

NextAudio == \E path \in SoundPaths, decodeOk \in BOOLEAN : Play(path, decodeOk)

SpecAudio == InitAudio /\ [][NextAudio]_vars

-----------------------------------------------------------------------------
(* The key constructors on their own: two requests are chosen and each is  *)
(* encoded by the constructor of its variant.                              *)

SeqsUpTo(bytes, n) == UNION { [1..k -> bytes] : k \in 0..n }

\* a CStr holds no zero byte before its terminator; a path is any bytes.
\* The text <<1>> and the two three-byte paths are the bytes that the point
\* size 1 and the wrap width 1 are encoded to, so that a key of one variant
\* can spell the fields of another.
KeyTexts == SeqsUpTo({97}, MaxTextLen) \cup { <<1>> }
KeyPaths == SeqsUpTo({0, 97}, MaxPathLen) \cup { <<1, 0, 0>>, <<0, 0, 0>> }
KeyPointSizes == { 1, 256, 257 }
\* 1 and 4294967294
KeyWrapWidths == { U32(0, 1), U32(65535, 65534) }

\* the inputs of tests::test_path, test_text and test_text_wrapped: the path
\* tester/abc, the text "text", 16 points and the wrap width u32::MAX - 1
TestPath == <<116, 101, 115, 116, 101, 114, 47, 97, 98, 99>>
TestText == <<116, 101, 120, 116>>
KeyTestRequests ==
    { [variant |-> "FilePath", path |-> TestPath],
      [variant |-> "RenderedText", text |-> TestText, path |-> TestPath,
       point_size |-> 16],
      [variant |-> "RenderedWrappedText", text |-> TestText, path |-> TestPath,
       point_size |-> 16, wrap_width |-> U32(65535, 65534)] }

KeyRequests ==
    KeyTestRequests
    \cup [variant : {"FilePath"}, path : KeyPaths]
    \cup [variant : {"RenderedText"}, text : KeyTexts, path : KeyPaths,
          point_size : KeyPointSizes]
    \cup [variant : {"RenderedWrappedText"}, text : KeyTexts, path : KeyPaths,
          point_size : KeyPointSizes, wrap_width : KeyWrapWidths]

\* the constructor a request goes to
KeyBuild(q) ==
    IF q.variant = "FilePath" THEN from_path_build(q.path)
    ELSE IF q.variant = "RenderedText"
    THEN from_rendered_text_build(q.text, q.path, q.point_size)
    ELSE from_rendered_wrapped_text_build(q.text, q.path, q.point_size, q.wrap_width)

InitKey ==
    /\ settings = [num_point_sizes_per_font |-> 1, num_fonts |-> 1,
                   num_textures_per_window |-> 1]
    /\ font_system = FontSystemNew(1, 1)
    /\ windows = EmptyMap
    /\ last = NoCall
    /\ log = [complete |-> FALSE, calls |-> <<>>]
    /\ key_inputs = <<>>
    /\ key_built = <<>>
    /\ sounds = AudioSystemNew(1)

Encode(q) ==
    /\ Len(key_inputs) < 2
    /\ key_inputs' = Append(key_inputs, q)
    /\ key_built' = Append(key_built, KeyBuild(q))
    /\ UNCHANGED <<settings, font_system, windows, last, log, sounds>>

NextKey == \E q \in KeyRequests : Encode(q)

SpecKey == InitKey /\ [][NextKey]_vars

-----------------------------------------------------------------------------
(* Properties of the whole system.                                         *)

InnerCaches(fs) ==
    { fs.num_font_objects.list[i].val : i \in 1..Len(fs.num_font_objects.list) }

CachesBounded ==
    /\ LruLen(font_system.num_font_objects) <= settings.num_fonts
    /\ \A c \in InnerCaches(font_system) : LruLen(c) <= settings.num_point_sizes_per_font
    /\ \A n \in DOMAIN windows :
          LruLen(windows[n].textures) <= settings.num_textures_per_window

\* c before a step and d after it: a key that enters a cache holding
\* `cap` entries takes the place of the least recently used one and of no other
InsertEvictsLru(c, d, cap) ==
    (LruKeys(d) \ LruKeys(c) # {} /\ LruLen(c) = cap) =>
        /\ Cardinality(LruKeys(d) \ LruKeys(c)) = 1
        /\ LruKeys(c) \ LruKeys(d) = { c.list[Len(c.list)].key }
        /\ LruLen(d) = cap

EvictionIsLru ==
    /\ InsertEvictsLru(font_system.num_font_objects, font_system'.num_font_objects,
                       settings.num_fonts)
    /\ \A f \in LruKeys(font_system.num_font_objects)
                  \cap LruKeys(font_system'.num_font_objects) :
          InsertEvictsLru(LruPeek(font_system.num_font_objects, f),
                          LruPeek(font_system'.num_font_objects, f),
                          settings.num_point_sizes_per_font)
    /\ \A n \in DOMAIN windows \cap DOMAIN windows' :
          InsertEvictsLru(windows[n].textures, windows'[n].textures,
                          settings.num_textures_per_window)

\* C1: whatever texture, text, add_window and remove_window calls are made,
\* the font cache holds at most num_fonts font files, each of them at most
\* num_point_sizes_per_font font objects, and every window's texture cache at
\* most num_textures_per_window textures; an insert into a full cache evicts
\* exactly one entry, the least recently used one.
C1_CachesBoundedLruEviction ==
    CachesBounded /\ [][CachesBounded' /\ EvictionIsLru]_vars

\* a text call has just evicted a texture while the font cache, full in both
\* of its levels, holds as many font files and font objects as it may
C1_Witness ==
    /\ last.op = "text" /\ last.ok /\ last.evictions = 1
    /\ settings.num_textures_per_window > 1
    /\ \E n \in DOMAIN windows :
          LruLen(windows[n].textures) = settings.num_textures_per_window
    /\ LruLen(font_system.num_font_objects) = settings.num_fonts
    /\ \E c \in InnerCaches(font_system) :
          LruLen(c) = settings.num_point_sizes_per_font

-----------------------------------------------------------------------------
(* Properties of one render system (window "main").                        *)

MainTextures == windows["main"].textures

LastN(s, n) == SubSeq(s, Len(s) - n + 1, Len(s))

DistinctKeys(calls) ==
    \A i, j \in 1..Len(calls) : i # j => calls[i].key # calls[j].key

IsDraw(e) == e.op \in {"texture", "text"} /\ e.exists

\* C2: in a texture cache of capacity N, after N+1 successful texture/text
\* calls with N+1 distinct keys k1..k(N+1) and nothing in between, k1 is
\* absent and k2..k(N+1) are present.
C2_OldestOfNPlusOneEvicted ==
    LET N == settings.num_textures_per_window
    IN  (Len(log.calls) >= N + 1 /\ DistinctKeys(LastN(log.calls, N + 1))) =>
            LET k == LastN(log.calls, N + 1)
            IN  /\ ~LruContains(MainTextures, k[1].key)
                /\ \A j \in 2..(N + 1) : LruContains(MainTextures, k[j].key)

\* three calls with distinct keys, an image among them and a text, have
\* just gone through a cache of capacity 2
C2_Witness ==
    /\ settings.num_textures_per_window = 2
    /\ Len(log.calls) >= 3
    /\ DistinctKeys(LastN(log.calls, 3))
    /\ \E i, j \in (Len(log.calls) - 2)..Len(log.calls) :
          log.calls[i].op = "texture" /\ log.calls[j].op = "text"

\* the last N+2 calls: k1..kN inserted, k1 hit again, a new key inserted
PromotionScenario(q, N) ==
    /\ \A i \in 1..N : ~q[i].hit
    /\ DistinctKeys(SubSeq(q, 1, N))
    /\ q[N + 1].hit /\ q[N + 1].key = q[1].key
    /\ ~q[N + 2].hit

\* C3: a hit promotes recency: after k1..kN were inserted into a texture
\* cache of capacity N (N >= 2), a repeated call for k1 followed by the
\* insertion of a new key evicts k2, not k1.
C3_HitPromotes ==
    LET N == settings.num_textures_per_window
    IN  (N >= 2 /\ Len(log.calls) >= N + 2
         /\ PromotionScenario(LastN(log.calls, N + 2), N)) =>
            LET q == LastN(log.calls, N + 2)
            IN  /\ q[N + 2].evicted = { q[2].key }
                /\ LruContains(MainTextures, q[1].key)
                /\ ~LruContains(MainTextures, q[2].key)

C3_Witness ==
    /\ settings.num_textures_per_window = 2
    /\ Len(log.calls) = 4
    /\ PromotionScenario(log.calls, 2)
    /\ log.calls[3].op = "text"

\* the step is a texture/text call whose key was in the cache before it
HitStep ==
    /\ IsDraw(last')
    /\ LruContains(MainTextures, last'.key)

\* C4: a texture/text call whose key is already cached returns the cached
\* texture and computes nothing: no image load, no FontSystem::render (no
\* file read, no font opened, nothing rasterized) and no upload.
C4_HitComputesNothing ==
    [][HitStep =>
        /\ last'.ok /\ last'.hit
        /\ ~last'.loaded /\ ~last'.rendered /\ ~last'.read
        /\ ~last'.opened /\ ~last'.rastered /\ ~last'.uploaded
        /\ font_system' = font_system
        /\ LruKeys(MainTextures') = LruKeys(MainTextures)
        /\ LruPeek(MainTextures', last'.key) = LruPeek(MainTextures, last'.key)]_vars

\* a text call has just hit while no font object of its point size is cached
C4_Witness ==
    /\ last.op = "text" /\ last.exists /\ last.hit
    /\ LruLen(MainTextures) = 2
    /\ \A c \in InnerCaches(font_system) : last.key[2] \notin LruKeys(c)

\* the step is a texture/text call that returned an error
FailedStep == IsDraw(last') /\ ~last'.ok

\* C5: a texture/text call that misses and whose compute step fails (image
\* load, font render, upload) returns the error and leaves the texture cache
\* as it was: same keys in the same recency order, nothing evicted, and the
\* requested key absent.
C5_FailedComputeLeavesCache ==
    [][FailedStep =>
        /\ MainTextures' = MainTextures
        /\ ~LruContains(MainTextures', last'.key)
        /\ last'.failed \in {"load", "read", "open", "raster", "upload"}]_vars

\* an upload has just failed on a full cache
C5_Witness ==
    /\ last.op = "text" /\ last.exists /\ ~last.ok /\ last.failed = "upload"
    /\ LruLen(MainTextures) = settings.num_textures_per_window

-----------------------------------------------------------------------------
(* Properties of the font system.                                          *)

FontCache == font_system.num_font_objects

\* the step is a render call for a font file that was not cached, and it
\* failed reading the file or opening the font
FailedLoadStep ==
    /\ last'.op = "render"
    /\ ~LruContains(FontCache, last'.font_file)
    /\ last'.failed \in {"read", "open"}

\* C6: a failed font load leaves the font cache alone: when render is called
\* for a font file that is not cached and reading the file or opening the
\* font fails, the cache holds the same font files as before and every other
\* file keeps its font objects.
C6_FailedLoadLeavesFontCache ==
    [][FailedLoadStep =>
        /\ LruKeys(FontCache') = LruKeys(FontCache)
        /\ \A f \in LruKeys(FontCache) :
              /\ LruContains(FontCache', f)
              /\ LruPeek(FontCache', f) = LruPeek(FontCache, f)]_vars

\* calls i < j of the log are for the same font file at different point
\* sizes, and no call after i up to j evicted that file
SameFileKept(t, i, j) ==
    /\ t[i].font_file = t[j].font_file
    /\ t[i].point_size # t[j].point_size
    /\ \A k \in (i + 1)..j : t[i].font_file \notin t[k].evicted_files

\* the calls i..j that read the font file of call i from storage
ReadsOfFile(t, i, j) ==
    { k \in i..j : t[k].font_file = t[i].font_file /\ t[k].read }

\* C7: of two successful render calls for one font file at two point sizes,
\* the file's entry never evicted in between, only the first can read the
\* file, and it does when it is the call that loads it: the file is read
\* exactly once; the second call takes the byte buffer of a cached font
\* object and, its point size not cached since the load, opens a new font
\* object from that buffer.
C7_FontFileReadOnce ==
    \A i, j \in 1..Len(log.calls) :
        (i < j /\ SameFileKept(log.calls, i, j)) =>
            LET t == log.calls
            IN  /\ ~t[j].read
                /\ Cardinality(ReadsOfFile(t, i, j)) = IF t[i].read THEN 1 ELSE 0
                /\ t[j].buffer = t[i].buffer
                /\ (/\ t[i].read
                    /\ \A k \in i..(j - 1) : t[k].font_file = t[j].font_file
                                              => t[k].point_size # t[j].point_size)
                        => t[j].opened

\* right after construction a font file was loaded at one size and rendered
\* at another: one read, and two font objects on the one buffer
C7_Witness ==
    /\ Len(log.calls) = 2
    /\ SameFileKept(log.calls, 1, 2)
    /\ log.calls[1].read /\ log.calls[2].opened
    /\ \E c \in InnerCaches(font_system) :
          /\ LruLen(c) = 2
          /\ c.list[1].val.font_file_content = c.list[2].val.font_file_content

\* the last three calls rendered one font file at 10, 12 and 14
Sizes101214(t) ==
    /\ t[1].point_size = 10 /\ t[2].point_size = 12 /\ t[3].point_size = 14
    /\ t[2].font_file = t[1].font_file /\ t[3].font_file = t[1].font_file

\* C8: with num_fonts = 1 and num_point_sizes_per_font = 2, rendering a font
\* at sizes 10, 12, 14 in that order, all succeeding, evicts the size-10 font
\* object and leaves 12 and 14 cached; done on a new font system, the three
\* calls read the file exactly once.
C8_ThreeSizesScenario ==
    (/\ settings.num_fonts = 1 /\ settings.num_point_sizes_per_font = 2
     /\ Len(log.calls) >= 3 /\ Sizes101214(LastN(log.calls, 3))) =>
        LET inner == LruPeek(FontCache, last.font_file)
        IN  /\ LruKeys(FontCache) = { last.font_file }
            /\ LruKeys(inner) = {12, 14}
            /\ inner.list[1].key = 14
            /\ LastN(log.calls, 3)[3].evicted_sizes = {10}
            /\ Len(log.calls) = 3 =>
                  /\ log.calls[1].read
                  /\ ReadsOfFile(log.calls, 1, 3) = {1}

C8_Witness ==
    /\ settings.num_fonts = 1 /\ settings.num_point_sizes_per_font = 2
    /\ Len(log.calls) = 3 /\ Sizes101214(log.calls)

-----------------------------------------------------------------------------
(* Properties of the key encoding.                                         *)

EncodedPairs == { p \in (1..Len(key_inputs)) \X (1..Len(key_inputs)) : p[1] # p[2] }

\* C9: keys of different variants are never equal: a FilePath key never
\* equals a RenderedText key, a RenderedText key never equals a
\* RenderedWrappedText key, and a FilePath key never equals a
\* RenderedWrappedText key, whatever the paths, texts, point sizes and wrap
\* widths.
C9_VariantsNeverCollide ==
    \A p \in EncodedPairs :
        key_inputs[p[1]].variant # key_inputs[p[2]].variant
            => key_built[p[1]].data # key_built[p[2]].data

\* two keys of different variants that agree on every byte after the first
C9_Witness ==
    /\ Len(key_inputs) = 2
    /\ key_inputs[1].variant # key_inputs[2].variant
    /\ Tail(key_built[1].data) = Tail(key_built[2].data)

\* C10: within one variant the encoding is injective: two requests of the
\* same variant that differ in path, text, point size or wrap width never
\* have the same key bytes.
C10_InjectiveWithinVariant ==
    \A p \in EncodedPairs :
        (/\ key_inputs[p[1]].variant = key_inputs[p[2]].variant
         /\ key_inputs[p[1]] # key_inputs[p[2]])
            => key_built[p[1]].data # key_built[p[2]].data

\* two text requests that differ only in where the text ends and the path
\* begins
C10_Witness ==
    /\ Len(key_inputs) = 2
    /\ key_inputs[1].variant = "RenderedText"
    /\ key_inputs[2].variant = "RenderedText"
    /\ key_inputs[1].point_size = key_inputs[2].point_size
    /\ key_inputs[1].text # key_inputs[2].text
    /\ key_inputs[1].text \o key_inputs[1].path
          = key_inputs[2].text \o key_inputs[2].path

\* the requests of one variant that were encoded, with their keys
Encoded(variant) ==
    { [q |-> key_inputs[i], data |-> key_built[i].data] :
        i \in { n \in 1..Len(key_inputs) : key_inputs[n].variant = variant } }

IsByte(b) == b \in 0..255

\* C11: from_rendered_text yields the byte 1, the point size as two bytes
\* little-endian, the text bytes followed by one zero byte, then the font
\* path bytes; text "text", 16 points, path tester/abc give
\* 01 10 00 't' 'e' 'x' 't' 00 and the path bytes.
C11_RenderedTextLayout ==
    \A e \in Encoded("RenderedText") :
        LET n == Len(e.q.text)
            d == e.data
        IN  /\ Len(d) = 3 + n + 1 + Len(e.q.path)
            /\ d[1] = 1
            /\ IsByte(d[2]) /\ IsByte(d[3]) /\ d[2] + 256 * d[3] = e.q.point_size
            /\ SubSeq(d, 4, 3 + n) = e.q.text
            /\ d[4 + n] = 0
            /\ SubSeq(d, 5 + n, Len(d)) = e.q.path
            /\ (e.q.text = TestText /\ e.q.path = TestPath /\ e.q.point_size = 16)
                  => d = <<1, 16, 0, 116, 101, 120, 116, 0>> \o TestPath

C11_Witness ==
    /\ \E e \in Encoded("RenderedText") : e.q.text = TestText /\ e.q.point_size = 16
    /\ \E e \in Encoded("RenderedText") : e.q.point_size = 257 /\ e.q.text = <<97, 97>>

\* the wrap width 4294967294 of test_text_wrapped
IsTestWidth(w) == w.hi = 65535 /\ w.lo = 65534

\* C12: from_rendered_wrapped_text yields the byte 2, the point size as two
\* bytes little-endian, the wrap width as four bytes little-endian (byte i
\* is (wrap_width / 256^i) mod 256; 4294967294 gives FE FF FF FF), the text
\* bytes with a terminating zero, then the font path bytes.
C12_WrappedTextLayout ==
    \A e \in Encoded("RenderedWrappedText") :
        LET n == Len(e.q.text)
            d == e.data
        IN  /\ Len(d) = 7 + n + 1 + Len(e.q.path)
            /\ d[1] = 2
            /\ IsByte(d[2]) /\ IsByte(d[3]) /\ d[2] + 256 * d[3] = e.q.point_size
            /\ \A i \in 4..7 : IsByte(d[i])
            /\ d[4] + 256 * d[5] = e.q.wrap_width.lo
            /\ d[6] + 256 * d[7] = e.q.wrap_width.hi
            /\ IsTestWidth(e.q.wrap_width) => SubSeq(d, 4, 7) = <<254, 255, 255, 255>>
            /\ SubSeq(d, 8, 7 + n) = e.q.text
            /\ d[8 + n] = 0
            /\ SubSeq(d, 9 + n, Len(d)) = e.q.path

C12_Witness ==
    /\ \E e \in Encoded("RenderedWrappedText") :
          IsTestWidth(e.q.wrap_width) /\ e.q.point_size = 16
    /\ \E e \in Encoded("RenderedWrappedText") :
          e.q.wrap_width = U32(0, 1) /\ e.q.point_size = 256

\* C13: from_path yields the byte 0 followed by the path bytes in order,
\* 1 + len(path) bytes in all, for every path, the empty one included; equal
\* paths give equal keys.
C13_FilePathLayout ==
    /\ \A e \in Encoded("FilePath") :
          /\ Len(e.data) = 1 + Len(e.q.path)
          /\ e.data = <<0>> \o e.q.path
    /\ \A p \in EncodedPairs :
          (/\ key_inputs[p[1]].variant = "FilePath"
           /\ key_inputs[p[1]] = key_inputs[p[2]])
              => key_built[p[1]].data = key_built[p[2]].data

C13_Witness ==
    /\ Len(key_inputs) = 2
    /\ key_inputs[1] = [variant |-> "FilePath", path |-> <<>>]
    /\ key_inputs[2] = [variant |-> "FilePath", path |-> TestPath]

-----------------------------------------------------------------------------
(* Native resources of the font objects.                                   *)

\* C14: every native resource Font::new acquires (the read stream and the
\* opened font) is released exactly once on all exit paths: on each render
\* call the streams and fonts acquired less those released are the Font
\* objects the cache gained, so none is open without a Font that owns it,
\* also when Font::new fails after the stream was created.
C14_NativeResourcesBalanced ==
    [][last'.op = "render" =>
        /\ last'.acquired.rwops - last'.released.rwops
              = NumFonts(font_system') - NumFonts(font_system)
        /\ last'.acquired.fonts - last'.released.fonts
              = NumFonts(font_system') - NumFonts(font_system)]_vars

-----------------------------------------------------------------------------
(* Properties of the window map.                                           *)

\* in the drop sequence d of render system rs every cached texture is
\* destroyed once, canvas and creator once, and no texture after either
DropOrder(rs, d) ==
    /\ \A k \in LruKeys(rs.textures) :
          Cardinality({ i \in 1..Len(d) : d[i] = [part |-> "texture", key |-> k] }) = 1
    /\ \A c \in {"canvas", "creator"} :
          Cardinality({ i \in 1..Len(d) : d[i].part = c }) = 1
    /\ \A i, j \in 1..Len(d) :
          (d[i].part = "texture" /\ d[j].part # "texture") => i < j

\* C15: whenever a window's render system is torn down, by remove_window or
\* by the drop of the whole system, every texture of its cache is destroyed
\* before its canvas and texture creator are: at no point of the teardown
\* does a cached texture exist with the canvas or creator destroyed.
C15_TexturesDroppedBeforeCanvas ==
    [][last'.op \in {"remove_window", "drop"} =>
        /\ DOMAIN last'.drops = DOMAIN windows \ DOMAIN windows'
        /\ \A n \in DOMAIN last'.drops : DropOrder(windows[n], last'.drops[n])]_vars

C15_Witness ==
    /\ last.op = "drop"
    /\ DOMAIN last.drops = TwoWindows
    /\ \A n \in TwoWindows : Len(last.drops[n]) = 4

\* the windows other than n are the same after the step, with the same
\* texture caches in the same recency order
OthersUnchanged(n) ==
    \A m \in (DOMAIN windows \cup DOMAIN windows') \ {n} :
        m \in DOMAIN windows /\ m \in DOMAIN windows' /\ windows'[m] = windows[m]

NothingChanged == windows' = windows /\ font_system' = font_system

\* the step added window n with an empty texture cache
AddedEmpty(n) ==
    /\ last'.ok
    /\ n \in DOMAIN windows'
    /\ LruLen(windows'[n].textures) = 0
    /\ OthersUnchanged(n)
    /\ font_system' = font_system

\* C16: add_window with a name that already exists returns an error and
\* leaves that window, its texture cache and recency order, every other
\* window and the font cache unchanged; with a new name it succeeds and the
\* new window starts with an empty texture cache.
C16_AddWindowAsClaimed ==
    [][last'.op = "add_window" =>
        IF last'.window \in DOMAIN windows
        THEN ~last'.ok /\ NothingChanged
        ELSE AddedEmpty(last'.window)]_vars

\* C16 (amended): as above, but with a new name it succeeds when the canvas
\* and texture creator of the window can be built; when they cannot it
\* returns the error and changes nothing.
C16_AddWindow ==
    [][last'.op = "add_window" =>
        IF last'.window \in DOMAIN windows \/ last'.failed = "build"
        THEN ~last'.ok /\ NothingChanged
        ELSE AddedEmpty(last'.window)]_vars

C16_Witness ==
    /\ last.op = "add_window" /\ last.failed = "exists"
    /\ LruLen(windows[last.window].textures) = 2
    /\ \E m \in DOMAIN windows \ {last.window} : LruLen(windows[m].textures) = 2
    /\ LruLen(font_system.num_font_objects) = 1

\* remove_window on its own: an existing window goes with its textures and
\* nothing else changes; a missing one is an error and nothing changes
RemoveStep ==
    last'.op = "remove_window" =>
        IF last'.window \in DOMAIN windows
        THEN /\ last'.ok
             /\ DOMAIN windows' = DOMAIN windows \ {last'.window}
             /\ OthersUnchanged(last'.window)
             /\ font_system' = font_system
        ELSE ~last'.ok /\ NothingChanged

\* the step is an add_window of the name the step before removed
ReAddStep ==
    /\ last.op = "remove_window" /\ last.ok
    /\ last'.op = "add_window" /\ last'.window = last.window

\* C17: remove_window on an existing window removes exactly that window and
\* its cached textures and leaves every other window's texture cache and
\* the font cache unchanged; on a missing name it returns an error and
\* changes nothing; after a successful removal add_window with the same
\* name succeeds and starts with an empty texture cache.
C17_RemoveWindowAsClaimed ==
    [][RemoveStep /\ (ReAddStep => AddedEmpty(last'.window))]_vars

\* C17 (amended): as above, but the add_window after the removal succeeds
\* when the canvas and texture creator can be built.
C17_RemoveWindow ==
    [][RemoveStep /\ ((ReAddStep /\ last'.failed # "build") => AddedEmpty(last'.window))]_vars

C17_Witness ==
    /\ last.op = "remove_window" /\ last.ok
    /\ Len(last.drops[last.window]) = 4
    /\ \E m \in DOMAIN windows : LruLen(windows[m].textures) = 2
    /\ LruLen(font_system.num_font_objects) = 1

\* C18: a copy or copy_text call naming a window that does not exist
\* returns an error and changes no state: no texture cache and no part of
\* the font cache is modified, no file is read and nothing is drawn.
C18_MissingWindowChangesNothing ==
    [][(last'.op \in {"texture", "text"} /\ last'.window \notin DOMAIN windows) =>
        /\ ~last'.ok /\ last'.failed = "window"
        /\ NothingChanged
        /\ ~last'.loaded /\ ~last'.read /\ ~last'.opened
        /\ ~last'.rastered /\ ~last'.uploaded /\ ~last'.rendered]_vars

C18_Witness ==
    /\ last.op = "text" /\ last.failed = "window"
    /\ last.window \notin DOMAIN windows
    /\ \E m \in DOMAIN windows : LruLen(windows[m].textures) = 2
    /\ LruLen(font_system.num_font_objects) = 1

-----------------------------------------------------------------------------
(* Properties of the audio system.                                         *)

Chunks == sounds.chunks

\* C19: play(path) triggers playback exactly once, of the chunk stored in
\* the cache under path, when the chunk is already cached (no decode) or
\* when decoding succeeds (chunk inserted, the least recently used chunk
\* evicted if the cache was full); when decoding fails it returns the
\* error, triggers no playback and leaves the chunk cache unchanged.
C19_PlayOnceFromCache ==
    [][last'.op = "play" =>
        LET path == last'.path
        IN  IF LruContains(Chunks, path)
            THEN /\ last'.ok /\ ~last'.decoded
                 /\ last'.played = << LruPeek(Chunks, path).chunk >>
                 /\ LruPeek(Chunks', path) = LruPeek(Chunks, path)
                 /\ LruKeys(Chunks') = LruKeys(Chunks)
            ELSE IF last'.ok
            THEN /\ last'.decoded
                 /\ LruContains(Chunks', path)
                 /\ last'.played = << LruPeek(Chunks', path).chunk >>
                 /\ LruPeek(Chunks', path).chunk \notin LiveChunks(Chunks)
                 /\ LruKeys(Chunks') = (LruKeys(Chunks) \ last'.evicted) \cup {path}
                 /\ last'.evicted = IF LruLen(Chunks) = Chunks.cap
                                    THEN { Chunks.list[LruLen(Chunks)].key } ELSE {}
                 /\ \A k \in LruKeys(Chunks') \ {path} :
                        LruPeek(Chunks', k) = LruPeek(Chunks, k)
            ELSE /\ last'.failed = "decode"
                 /\ last'.played = <<>>
                 /\ Chunks' = Chunks]_vars

\* a cached chunk was played again, from a full cache of two
C19_Witness ==
    /\ last.op = "play" /\ last.hit /\ Len(last.played) = 1
    /\ LruLen(Chunks) = 2 /\ Chunks.cap = 2
    /\ Chunks.list[1].val.chunk = 2

-----------------------------------------------------------------------------
(* Rasterization failures in the font system.                              *)

RasterFailedStep == last'.op = "render" /\ last'.failed = "raster"

\* C20: when Font::render fails in FontSystem::render the failure
\* propagates without touching cache state: the font files, font objects
\* and recency orders of the font cache are the same after the call as
\* before it.
C20_RasterFailureAsClaimed ==
    [][RasterFailedStep => font_system' = font_system]_vars

\* C20 (amended): the failure propagates and rasterization itself touches
\* no cache state: the font cache after the call is the one a successful
\* call with the same arguments leaves, with the font file and the font
\* object of the point size cached and most recently used.
C20_RasterFailureKeepsFontObject ==
    [][RasterFailedStep =>
        /\ ~last'.ok
        /\ font_system' = FontSystemRender(font_system, last'.font_file,
                                           last'.point_size, TRUE, TRUE, TRUE).fs
        /\ FontCache'.list[1].key = last'.font_file
        /\ FontCache'.list[1].val.list[1].key = last'.point_size]_vars

\* a failed rasterization on a Font that the call opened, dropping another
C20_Witness ==
    /\ last.op = "render" /\ last.failed = "raster"
    /\ last.opened /\ last.dropped = 1
    /\ FontCache.list[1].val.list[1].key = last.point_size

-----------------------------------------------------------------------------
(* Failures of Font::new, and the byte buffers of the font objects.        *)

\* the font objects cached for a font file, most recent first; none when
\* the file has no entry
InnerList(fs, font_file) ==
    IF LruContains(fs.num_font_objects, font_file)
    THEN LruPeek(fs.num_font_objects, font_file).list
    ELSE <<>>

\* C21: when FontSystem::render misses on the point size and Font::new
\* fails, the error is propagated and no font object is inserted for that
\* point size: the inner cache of the font file keeps the same point sizes
\* in the same recency order, and no sibling point size is evicted.
C21_FailedOpenLeavesInnerCache ==
    [][(last'.op = "render" /\ last'.failed = "open") =>
        /\ ~last'.ok
        /\ last'.evicted_sizes = {}
        /\ InnerList(font_system', last'.font_file)
              = InnerList(font_system, last'.font_file)
        /\ \A i \in 1..Len(InnerList(font_system', last'.font_file)) :
              InnerList(font_system', last'.font_file)[i].key # last'.point_size]_vars

\* Font::new failed for a third point size of a file whose inner cache
\* was full
C21_Witness ==
    /\ last.op = "render" /\ last.failed = "open"
    /\ Len(InnerList(font_system, last.font_file)) = 2
    /\ font_system.num_font_objects_per_font = 2

\* the byte buffers the font objects cached for a font file refer to
BuffersOf(fs, font_file) ==
    { InnerList(fs, font_file)[i].val.font_file_content :
        i \in 1..Len(InnerList(fs, font_file)) }

\* C22: in every reachable state all font objects cached under one font
\* file refer to one byte buffer, never to two loads of the file (and two
\* font files never to the same buffer), also after inner evictions, failed
\* loads, and the eviction and reload of the file's entry.
C22_OneBufferPerFontFile ==
    \A f \in LruKeys(FontCache) :
        /\ Cardinality(BuffersOf(font_system, f)) <= 1
        /\ \A g \in LruKeys(FontCache) \ {f} :
              BuffersOf(font_system, f) \cap BuffersOf(font_system, g) = {}

\* a font file was loaded, evicted by another file, loaded again, and then
\* rendered at a second point size
C22_Witness ==
    /\ Len(log.calls) = 4
    /\ log.calls[1].font_file = log.calls[3].font_file
    /\ log.calls[1].font_file \in log.calls[2].evicted_files
    /\ log.calls[3].read /\ ~log.calls[4].read /\ log.calls[4].opened
    /\ Len(InnerList(font_system, log.calls[1].font_file)) = 2

\* the font objects cached for font file f that hold buffer b
HoldersOf(fs, f, b) ==
    { i \in 1..Len(InnerList(fs, f)) : InnerList(fs, f)[i].val.font_file_content = b }

\* with one point size per font, a second point size of a cached file was
\* rendered
SecondSizeStep ==
    /\ last'.op = "render" /\ last'.ok
    /\ font_system.num_font_objects_per_font = 1
    /\ Len(InnerList(font_system, last'.font_file)) = 1
    /\ InnerList(font_system, last'.font_file)[1].key # last'.point_size

\* C23: a font file's byte buffer is never freed while a font object made
\* from it is alive, and it is freed once the last such font object is
\* dropped; with num_point_sizes_per_font = 1, rendering a second point size
\* evicts the only font object holding the buffer while the new font object
\* is created from that same buffer, without reading the file again.
C23_BufferOutlivesFontObjects ==
    [][last'.op = "render" =>
        LET t == last'.rc
            f == last'.font_file
        IN  /\ \A i \in 1..Len(t) : t[i].strong >= t[i].fonts /\ t[i].fonts >= 0
            /\ t # <<>> =>
                  /\ t[Len(t)].strong = t[Len(t)].fonts
                  /\ t[Len(t)].fonts
                        = Cardinality(HoldersOf(font_system', f, last'.buffer))
            /\ SecondSizeStep =>
                  /\ \A i \in 1..Len(t) : t[i].strong >= 1
                  /\ ~last'.read /\ last'.opened
                  /\ last'.evicted_sizes = { InnerList(font_system, f)[1].key }
                  /\ last'.buffer = InnerList(font_system, f)[1].val.font_file_content
                  /\ Len(InnerList(font_system', f)) = 1
                  /\ InnerList(font_system', f)[1].key = last'.point_size
                  /\ InnerList(font_system', f)[1].val.font_file_content = last'.buffer]_vars

C23_Witness ==
    /\ last.op = "render" /\ last.ok /\ ~last.read /\ last.opened
    /\ font_system.num_font_objects_per_font = 1
    /\ last.evicted_sizes # {}
    /\ Len(last.rc) = 6

-----------------------------------------------------------------------------
(* Windows and the font system.                                            *)

\* the step is a texture or text call that reached window n
DrawStepOn(n) ==
    /\ last'.op \in {"texture", "text"}
    /\ last'.window = n
    /\ n \in DOMAIN windows

\* C24: texture caches are independent per window: a texture or text call
\* on window A never inserts into, evicts from or reorders the texture cache
\* of a window B, and a key cached in window A is still a miss, with its own
\* load or render and upload, when first requested in window B.
C24_WindowCachesIndependent ==
    [][\A n \in DOMAIN windows : DrawStepOn(n) =>
        /\ DOMAIN windows' = DOMAIN windows
        /\ \A m \in DOMAIN windows \ {n} : windows'[m] = windows[m]
        /\ last'.hit <=> last'.key \in LruKeys(windows[n].textures)
        /\ ~last'.hit =>
              /\ last'.op = "texture" => last'.loaded
              /\ last'.op = "text" => last'.rendered
              /\ last'.ok => (last'.uploaded /\ last'.key \in LruKeys(windows'[n].textures))]_vars

\* a texture was loaded for one window while the other, its cache full,
\* already held the key
C24_Witness ==
    /\ last.op = "texture" /\ last.ok /\ ~last.hit /\ last.loaded
    /\ \E m \in DOMAIN windows \ {last.window} :
          /\ last.key \in LruKeys(windows[m].textures)
          /\ LruLen(windows[m].textures) = 2

\* the step before rendered a text for one window, loading the font, and
\* this step asks another window, which has not cached it, for the same
\* text with the same font file and point size
SameTextOtherWindow ==
    /\ last.op = "text" /\ last.ok /\ ~last.hit
    /\ last.read /\ last.opened /\ last.rastered /\ last.uploaded
    /\ last'.op = "text" /\ last'.exists
    /\ last'.window # last.window
    /\ last'.key = last.key
    /\ last'.key \notin LruKeys(windows[last'.window].textures)

\* C25: the font cache is shared by all windows: rendering the same text
\* with the same font file and point size first in window A and then in
\* window B reads the font file once and opens the font object once (in
\* the first call), while a texture is rasterized and uploaded once per
\* window.
C25_FontCacheSharedByWindows ==
    [][SameTextOtherWindow =>
        /\ ~last'.hit /\ last'.rendered
        /\ ~last'.read /\ ~last'.opened
        /\ last'.rastered
        /\ last'.failed \in {"none", "raster", "upload"}
        /\ last'.ok => (/\ last'.uploaded
                        /\ last'.key \in LruKeys(windows'[last'.window].textures)
                        /\ last'.key \in LruKeys(windows'[last.window].textures))]_vars

\* the second window got its texture from the font object the first had
\* opened
C25_Witness ==
    /\ last.op = "text" /\ last.ok /\ ~last.hit
    /\ ~last.read /\ ~last.opened /\ last.rastered /\ last.uploaded
    /\ \E m \in DOMAIN windows \ {last.window} :
          last.key \in LruKeys(windows[m].textures)

\* the point sizes cached for a font file
SizesOf(fs, font_file) ==
    { InnerList(fs, font_file)[i].key : i \in 1..Len(InnerList(fs, font_file)) }

\* the font files of the font cache, most recent first
FileOrder(fs) ==
    [i \in 1..LruLen(fs.num_font_objects) |-> fs.num_font_objects.list[i].key]

\* C26: a text request that hits the window's texture cache leaves the
\* font cache unchanged: no font file or point size is inserted, evicted or
\* promoted in recency, so texture hits never keep a font alive.
C26_TextureHitLeavesFontCache ==
    [][(last'.op = "text" /\ last'.hit) =>
        /\ FileOrder(font_system') = FileOrder(font_system)
        /\ \A f \in LruKeys(FontCache) :
              InnerList(font_system', f) = InnerList(font_system, f)
        /\ font_system' = font_system
        /\ ~last'.rendered /\ ~last'.read /\ ~last'.opened]_vars

\* a texture hit for a text whose font file is cached but is not the most
\* recently used of two
C26_Witness ==
    /\ last.op = "text" /\ last.hit
    /\ LruLen(FontCache) = 2
    /\ FontCache.list[2].key = last.font_file

\* the step asks a window for a text it has cached while the font cache
\* has lost the font object of that size, or the whole font file
OrphanTextStep ==
    /\ last'.op = "text" /\ last'.exists
    /\ last'.key \in LruKeys(windows[last'.window].textures)
    /\ last'.point_size \notin SizesOf(font_system, last'.font_file)

\* C27: a rendered-text texture that is still in a window's texture cache
\* stays servable after its font object, or its whole font file entry, was
\* evicted from the font cache: the repeated text call is a hit that reads
\* no file and creates no font object.
C27_CachedTextOutlivesFont ==
    [][OrphanTextStep =>
        /\ last'.hit /\ last'.ok
        /\ ~last'.read /\ ~last'.opened /\ ~last'.rastered /\ ~last'.uploaded
        /\ last'.key \in LruKeys(windows'[last'.window].textures)
        /\ last'.point_size \notin SizesOf(font_system', last'.font_file)]_vars

\* such a hit with the whole font file gone from the font cache
C27_Witness ==
    /\ last.op = "text" /\ last.hit /\ last.ok
    /\ last.font_file \notin LruKeys(FontCache)
    /\ LruLen(FontCache) = 1
    /\ LruLen(windows[last.window].textures) = 2

-----------------------------------------------------------------------------
(* The buffer of the key constructors.                                     *)

\* C28: in each of the three key constructors the buffer is sized once to
\* data_len and every index 0..data_len-1 is written exactly once, in
\* increasing order, with no write at or past data_len: the write index
\* equals data_len when the constructor returns and the key holds no
\* uninitialized byte, for every input, empty text and empty path included.
C28_KeyBufferFullyWritten ==
    \A n \in 1..Len(key_built) :
        LET b == key_built[n]
        IN  /\ ~b.panicked
            /\ Len(b.data) = b.data_len
            /\ b.index = b.data_len
            /\ b.written = [i \in 1..b.data_len |-> i - 1]
            /\ \A i \in 1..b.data_len : b.data[i] # Uninit /\ IsByte(b.data[i])

\* the shortest wrapped-text key and the shortest path key were built
C28_Witness ==
    /\ Len(key_inputs) = 2
    /\ key_inputs[1].variant = "RenderedWrappedText"
    /\ key_inputs[1].text = <<>> /\ key_inputs[1].path = <<>>
    /\ key_built[1].data_len = 8
    /\ key_inputs[2] = [variant |-> "FilePath", path |-> <<>>]
    /\ key_built[2].written = <<0>>

====
